---- MODULE Spec2Model ----
(***************************************************************************)
(* Markov-s-Machine: the n-gram chain trainer (package trainer), the       *)
(* tokenizer (package tokenizer) and the thematic answer generator         *)
(* (package generator).                                                    *)
(*                                                                         *)
(* Strings are sequences of Unicode code points, so that byte lengths      *)
(* (Go's len on a string), rune classes, lower/upper casing, key           *)
(* formatting and key parsing are computed, not assumed.  Go maps are      *)
(* functions; a key absent from a Go map is absent from the DOMAIN.        *)
(* Floating point quantities (entropy, scores, weights) are kept in fixed  *)
(* point with Scale units per 1.0.                                         *)
(***************************************************************************)
EXTENDS Integers, Sequences, FiniteSets, TLC

(***************************************************************************)
(* Bounds of the model.                                                    *)
(***************************************************************************)
MaxOrder == 3
MaxTrains == 2
MaxBatch == 1
MaxLen == 4
MaxLimit == 2

(***************************************************************************)
(* Generic helpers for Go maps and slices.                                 *)
(***************************************************************************)
Range(s) == {s[i] : i \in DOMAIN s}

Min(a, b) == IF a < b THEN a ELSE b

Max(a, b) == IF a > b THEN a ELSE b

\* m[k] with Go's zero value v0 for an absent key
Get(m, k, v0) == IF k \in DOMAIN m THEN m[k] ELSE v0

\* m[k] = v
Put(m, k, v) == [x \in (DOMAIN m) \cup {k} |-> IF x = k THEN v ELSE m[x]]

\* s[a:b] of Go (0-based, half open) on a 1-based sequence
Slice(s, a, b) == SubSeq(s, a + 1, b)

RECURSIVE SumOver(_, _)
SumOver(f, S) ==
  IF S = {} THEN 0
  ELSE LET x == CHOOSE y \in S : TRUE IN f[x] + SumOver(f, S \ {x})

\* the element of a set of one element
Only(S) == CHOOSE x \in S : TRUE

\* all orders in which the elements of a finite set can be visited
RECURSIVE Perms(_)
Perms(S) ==
  IF S = {} THEN { << >> }
  ELSE UNION { { <<x>> \o p : p \in Perms(S \ {x}) } : x \in S }

(***************************************************************************)
(* Runes.  The classes are those of package unicode restricted to Basic    *)
(* Latin, the Russian Cyrillic letters and the general punctuation the     *)
(* tokenizer names.                                                        *)
(***************************************************************************)
IsSpaceRune(r) == r \in {9, 10, 11, 12, 13, 32, 133, 160}

IsLetterRune(r) ==
  \/ r \in 65..90 \/ r \in 97..122
  \/ r \in 1040..1103 \/ r \in {1025, 1105}

IsNumberRune(r) == r \in 48..57

ToLowerRune(r) ==
  IF r \in 65..90 \/ r \in 1040..1071 THEN r + 32
  ELSE IF r = 1025 THEN 1105 ELSE r

ToUpperRune(r) ==
  IF r \in 97..122 \/ r \in 1072..1103 THEN r - 32
  ELSE IF r = 1105 THEN 1025 ELSE r

\* number of bytes of the UTF-8 encoding of a rune
Utf8Len(r) == IF r < 128 THEN 1 ELSE IF r < 2048 THEN 2 ELSE IF r < 65536 THEN 3 ELSE 4

\* len(s) of Go: the number of bytes of the string
RECURSIVE ByteLen(_)
ByteLen(s) == IF s = << >> THEN 0 ELSE Utf8Len(Head(s)) + ByteLen(Tail(s))

ToLower(s) == [i \in DOMAIN s |-> ToLowerRune(s[i])]

\* byte-wise order of two strings (sort.Strings); UTF-8 keeps code point order
RECURSIVE StrLess(_, _)
StrLess(a, b) ==
  IF b = << >> THEN FALSE
  ELSE IF a = << >> THEN TRUE
  ELSE IF Head(a) # Head(b) THEN Head(a) < Head(b)
  ELSE StrLess(Tail(a), Tail(b))

\* strings.Contains: sub occurs in s
Contains(s, sub) ==
  \E i \in 0..(Len(s) - Len(sub)) : SubSeq(s, i + 1, i + Len(sub)) = sub

(***************************************************************************)
(* Reserved tokens and fixed texts.                                        *)
(***************************************************************************)
StartTok == <<60, 115, 116, 97, 114, 116, 62>>   \* "<start>"

EndTok == <<60, 101, 110, 100, 62>>              \* "<end>"

WordStart == <<115, 116, 97, 114, 116>>          \* "start"

WordEnd == <<101, 110, 100>>                     \* "end"

(***************************************************************************)
(* package tokenizer                                                       *)
(***************************************************************************)
\* punctuationRegex: [.!?,;:'"()\[\]{}...] with the ellipsis and both dashes
TokPunctRune(r) ==
  r \in {46, 33, 63, 44, 59, 58, 39, 34, 40, 41, 91, 93, 123, 125, 8230, 8211, 8212}

WordRune(r) == IsLetterRune(r) \/ IsNumberRune(r) \/ r = 45

\* index (0-based) just past the run of word runes that starts at i
RECURSIVE WordEndAt(_, _)
WordEndAt(runes, i) ==
  IF i < Len(runes) /\ WordRune(runes[i + 1]) THEN WordEndAt(runes, i + 1) ELSE i

RECURSIVE tokenizeWithPunctuation(_, _)
tokenizeWithPunctuation(runes, i) ==
  IF i >= Len(runes) THEN << >>
  ELSE LET r == runes[i + 1] IN
    IF IsSpaceRune(r) THEN tokenizeWithPunctuation(runes, i + 1)
    ELSE IF TokPunctRune(r) THEN <<(<<r>>)>> \o tokenizeWithPunctuation(runes, i + 1)
    ELSE IF WordRune(r) THEN
      LET j == WordEndAt(runes, i)
          word == Slice(runes, i, j)
      IN (IF word # WordStart /\ word # WordEnd THEN <<word>> ELSE << >>)
           \o tokenizeWithPunctuation(runes, j)
    ELSE tokenizeWithPunctuation(runes, i + 1)

RECURSIVE tokenizeWordsOnly(_, _)
tokenizeWordsOnly(runes, i) ==
  IF i >= Len(runes) THEN << >>
  ELSE IF WordRune(runes[i + 1]) THEN
      LET j == WordEndAt(runes, i)
          match == Slice(runes, i, j)
      IN (IF match # <<45>> THEN <<match>> ELSE << >>) \o tokenizeWordsOnly(runes, j)
  ELSE tokenizeWordsOnly(runes, i + 1)

addSpecialTokens(tokens) == <<StartTok>> \o tokens \o <<EndTok>>

Tokenize(text, keepPunctuation) ==
  LET lower == ToLower(text) IN
  addSpecialTokens(IF keepPunctuation THEN tokenizeWithPunctuation(lower, 0)
                   ELSE tokenizeWordsOnly(lower, 0))

\* string(token[0]) is the first BYTE of the token as a rune: a token that starts
\* with a multi-byte rune yields a rune in 128..255, which the regex never matches
isPunctuationToken(token) ==
  /\ Len(token) > 0
  /\ token # StartTok /\ token # EndTok
  /\ token[1] < 128 /\ TokPunctRune(token[1])

RECURSIVE JoinTokensFrom(_, _)
JoinTokensFrom(tokens, i) ==
  IF i > Len(tokens) THEN << >>
  ELSE (IF i > 1 /\ ~isPunctuationToken(tokens[i]) THEN <<32>> ELSE << >>)
         \o tokens[i] \o JoinTokensFrom(tokens, i + 1)

JoinTokens(tokens) == JoinTokensFrom(tokens, 1)

(***************************************************************************)
(* package trainer                                                         *)
(***************************************************************************)
\* isPunctuation: the token is one of , . ! ? ; :
trainerIsPunctuation(token) ==
  Len(token) > 0 /\ token \in {<<44>>, <<46>>, <<33>>, <<63>>, <<59>>, <<58>>}

RECURSIVE joinSentenceFrom(_, _)
joinSentenceFrom(tokens, i) ==
  IF i > Len(tokens) THEN << >>
  ELSE (IF i > 1 /\ ~trainerIsPunctuation(tokens[i]) THEN <<32>> ELSE << >>)
         \o tokens[i] \o joinSentenceFrom(tokens, i + 1)

joinSentence(tokens) == joinSentenceFrom(tokens, 1)

\* fmt.Sprintf("%v", tokens): "[" + the tokens joined by one space + "]"
RECURSIVE SpaceJoin(_)
SpaceJoin(tokens) ==
  IF tokens = << >> THEN << >>
  ELSE IF Len(tokens) = 1 THEN tokens[1]
  ELSE tokens[1] \o <<32>> \o SpaceJoin(Tail(tokens))

joinTokens(tokens) == <<91>> \o SpaceJoin(tokens) \o <<93>>

\* the non-boundary tokens of a sentence are counted and indexed (lines 64-70)
RECURSIVE indexTokens(_, _, _, _)
indexTokens(iv, sentence, i, originalSentence) ==
  IF i > Len(sentence) THEN iv
  ELSE LET token == sentence[i] IN
    IF token = StartTok \/ token = EndTok
    THEN indexTokens(iv, sentence, i + 1, originalSentence)
    ELSE indexTokens(
           [Vocab |-> Put(iv.Vocab, token, Get(iv.Vocab, token, 0) + 1),
            Index |-> Put(iv.Index, token,
                          Append(Get(iv.Index, token, << >>), originalSentence))],
           sentence, i + 1, originalSentence)

RECURSIVE indexSentences(_, _, _)
indexSentences(iv, sentences, n) ==
  IF n > Len(sentences) THEN iv
  ELSE indexSentences(
         indexTokens(iv, sentences[n], 1, joinSentence(sentences[n])),
         sentences, n + 1)

\* the first occurrence of every element, in order (lines 74-81)
RECURSIVE uniqueSentences(_, _)
uniqueSentences(list, seen) ==
  IF list = << >> THEN << >>
  ELSE IF Head(list) \in seen THEN uniqueSentences(Tail(list), seen)
  ELSE <<Head(list)>> \o uniqueSentences(Tail(list), seen \cup {Head(list)})

buildIndexAndVocab(iv, sentences) ==
  LET filled == indexSentences(iv, sentences, 1) IN
  [Vocab |-> filled.Vocab,
   Index |-> [word \in DOMAIN filled.Index |-> uniqueSentences(filled.Index[word], {})]]

\* the window loop marking a transition as seen instead of counting it
RECURSIVE slideWindowMarking(_, _, _, _)
slideWindowMarking(chain, sentence, order, i) ==
  IF i > Len(sentence) - order THEN chain
  ELSE LET prefix == joinTokens(Slice(sentence, i, i + order - 1))
           suffix == sentence[i + order]
           suffixes == Get(chain, prefix, << >>)
       IN slideWindowMarking(Put(chain, prefix, Put(suffixes, suffix, 1)),
                             sentence, order, i + 1)

\* the window at i (0-based): Chain[prefix][suffix]++ (lines 92-100)
RECURSIVE slideWindow(_, _, _, _)
slideWindow(chain, sentence, order, i) ==
  IF i > Len(sentence) - order THEN chain
  ELSE LET prefix == joinTokens(Slice(sentence, i, i + order - 1))
           suffix == sentence[i + order]
           suffixes == Get(chain, prefix, << >>)
       IN slideWindow(Put(chain, prefix, Put(suffixes, suffix, Get(suffixes, suffix, 0) + 1)),
                      sentence, order, i + 1)

processSentence(chain, sentence, order) ==
  IF Len(sentence) < order THEN chain ELSE slideWindow(chain, sentence, order, 0)

RECURSIVE processSentences(_, _, _, _)
processSentences(chain, sentences, order, n) ==
  IF n > Len(sentences) THEN chain
  ELSE processSentences(processSentence(chain, sentences[n], order), sentences, order, n + 1)

\* calculateSums adding to the cached sum instead of rewriting it
calculateSumsAdding(sums, chain) ==
  [prefix \in (DOMAIN sums) \cup (DOMAIN chain) |->
     Get(sums, prefix, 0)
       + (IF prefix \in DOMAIN chain THEN SumOver(chain[prefix], DOMAIN chain[prefix]) ELSE 0)]

\* Sums[prefix] is rewritten for every prefix of the chain; other keys stay
calculateSums(sums, chain) ==
  [prefix \in (DOMAIN sums) \cup (DOMAIN chain) |->
     IF prefix \in DOMAIN chain THEN SumOver(chain[prefix], DOMAIN chain[prefix])
     ELSE sums[prefix]]

\* Train without the check for an empty collection
TrainResultUnchecked(mc, tokenizedSentences) ==
  LET iv == buildIndexAndVocab([Vocab |-> mc.Vocab, Index |-> mc.Index], tokenizedSentences)
      chain == processSentences(mc.Chain, tokenizedSentences, mc.Order, 1)
  IN [Order |-> mc.Order, Chain |-> chain, Sums |-> calculateSums(mc.Sums, chain),
      Index |-> iv.Index, Vocab |-> iv.Vocab, err |-> FALSE]

\* the model after Train(tokenizedSentences), with err = TRUE for the error return
TrainResult(mc, tokenizedSentences) ==
  IF Len(tokenizedSentences) = 0 THEN [mc EXCEPT !.err = TRUE]
  ELSE LET iv == buildIndexAndVocab([Vocab |-> mc.Vocab, Index |-> mc.Index],
                                    tokenizedSentences)
           chain == processSentences(mc.Chain, tokenizedSentences, mc.Order, 1)
       IN [Order |-> mc.Order, Chain |-> chain, Sums |-> calculateSums(mc.Sums, chain),
           Index |-> iv.Index, Vocab |-> iv.Vocab, err |-> FALSE]

\* GetNextTokens: nil (here << >>) for an unknown prefix, else suffix -> count/total,
\* kept as the pair of integers of the float64 division
GetNextTokens(chain, sums, prefix) ==
  LET prefixKey == joinTokens(prefix) IN
  IF prefixKey \notin DOMAIN chain THEN << >>
  ELSE [suffix \in DOMAIN chain[prefixKey] |->
          [num |-> chain[prefixKey][suffix], den |-> Get(sums, prefixKey, 0)]]

\* sentenceScores after the loop over the keywords (lines 136-142)
RECURSIVE scoreSentences(_, _, _, _)
scoreSentences(scores, index, keywords, i) ==
  IF i > Len(keywords) THEN scores
  ELSE LET hit == Range(Get(index, keywords[i], << >>)) IN
       scoreSentences([s \in (DOMAIN scores) \cup hit |->
                         Get(scores, s, 0) + (IF s \in hit THEN 1 ELSE 0)],
                      index, keywords, i + 1)

\* the comparison of an ascending sort
searchLessAscending(a, b) == a < b

\* the comparison handed to sort.Slice
searchLess(a, b) == a > b

\* what sort.Slice may leave of the scored sentences, collected in map order: any
\* arrangement in which no element is less (by searchLess) than one before it
sortedScored(scores) ==
  { p \in Perms(DOMAIN scores) :
      \A i, j \in 1..Len(p) : i < j => ~searchLess(scores[p[j]], scores[p[i]]) }

\* the cut one entry early
takeLimitShort(scored, limit) == Slice(scored, 0, Min(Max(limit, 0), Len(scored)) - 1)

\* the first limit entries (lines 158-164)
takeLimit(scored, limit) == Slice(scored, 0, Min(Max(limit, 0), Len(scored)))

\* every list Search(keywords, limit) can return
Search(index, keywords, limit) ==
  { takeLimit(scored, limit) : scored \in sortedScored(scoreSentences(<< >>, index, keywords, 1)) }

(***************************************************************************)
(* package generator                                                       *)
(***************************************************************************)
isPunctuation(token) ==
  Len(token) > 0 /\ token \in {<<44>>, <<46>>, <<33>>, <<63>>, <<59>>, <<58>>}

\* strings.TrimSpace
RECURSIVE TrimLeft(_)
TrimLeft(s) == IF s # << >> /\ IsSpaceRune(Head(s)) THEN TrimLeft(Tail(s)) ELSE s

RECURSIVE TrimRight(_)
TrimRight(s) ==
  IF s # << >> /\ IsSpaceRune(s[Len(s)]) THEN TrimRight(SubSeq(s, 1, Len(s) - 1)) ELSE s

TrimSpace(s) == TrimRight(TrimLeft(s))

\* strings.Split(s, " ")
RECURSIVE SplitSpace(_, _)
SplitSpace(s, cur) ==
  IF s = << >> THEN <<cur>>
  ELSE IF Head(s) = 32 THEN <<cur>> \o SplitSpace(Tail(s), << >>)
  ELSE SplitSpace(Tail(s), Append(cur, Head(s)))

RECURSIVE nonEmptyTrimmed(_)
nonEmptyTrimmed(parts) ==
  IF parts = << >> THEN << >>
  ELSE LET cleanToken == TrimSpace(Head(parts)) IN
       (IF cleanToken # << >> THEN <<cleanToken>> ELSE << >>) \o nonEmptyTrimmed(Tail(parts))

parsePrefix(prefix) ==
  LET a == IF prefix # << >> /\ prefix[1] = 91 THEN Tail(prefix) ELSE prefix
      cleaned == IF a # << >> /\ a[Len(a)] = 93 THEN SubSeq(a, 1, Len(a) - 1) ELSE a
  IN IF cleaned = << >> THEN << >> ELSE nonEmptyTrimmed(SplitSpace(cleaned, << >>))

\* sort.Strings, by insertion
RECURSIVE insertSorted(_, _)
insertSorted(sorted, x) ==
  IF sorted = << >> THEN <<x>>
  ELSE IF StrLess(x, Head(sorted)) THEN <<x>> \o sorted
  ELSE <<Head(sorted)>> \o insertSorted(Tail(sorted), x)

RECURSIVE sortStrings(_)
sortStrings(tokens) ==
  IF tokens = << >> THEN << >> ELSE insertSorted(sortStrings(Tail(tokens)), Head(tokens))

\* strings.Join(tokens, "|")
RECURSIVE joinBar(_)
joinBar(tokens) ==
  IF tokens = << >> THEN << >>
  ELSE IF Len(tokens) = 1 THEN tokens[1]
  ELSE tokens[1] \o <<124>> \o joinBar(Tail(tokens))

\* the context key without the sort
createContextKeyUnsorted(tokens) == joinBar(tokens)

createContextKey(tokens) == joinBar(sortStrings(tokens))

\* the amount one observation adds to tokenContexts[token][contextKey] (line 94)
contextIncrement(count) == 1

addTokenContext(token, context, count, tokenContexts) ==
  LET contextKey == createContextKey(context)
      h == Get(tokenContexts, token, << >>)
  IN Put(tokenContexts, token, Put(h, contextKey, Get(h, contextKey, 0) + contextIncrement(count)))

\* the loop over the tokens of the prefix (lines 61-63); the map after one iteration
\* is bound to next before the following one runs
RECURSIVE addPrefixTokens(_, _, _)
addPrefixTokens(tc, prefixTokens, i) ==
  IF i > Len(prefixTokens) THEN tc
  ELSE Only({ addPrefixTokens(next, prefixTokens, i + 1) :
                next \in { addTokenContext(prefixTokens[i], prefixTokens, 0, tc) } })

\* the loop over the suffixes of the prefix (lines 65-67)
RECURSIVE addSuffixes(_, _, _, _)
addSuffixes(tc, prefixTokens, suffixes, left) ==
  IF left = {} THEN tc
  ELSE LET suffix == CHOOSE x \in left : TRUE IN
       Only({ addSuffixes(next, prefixTokens, suffixes, left \ {suffix}) :
                next \in { addTokenContext(suffix, prefixTokens, suffixes[suffix], tc) } })

\* tokenContexts after the loop over the chain (lines 58-69); the counts do not
\* depend on the order in which the map is visited
RECURSIVE collectContexts(_, _, _)
collectContexts(tc, chain, left) ==
  IF left = {} THEN tc
  ELSE LET prefix == CHOOSE x \in left : TRUE
           prefixTokens == parsePrefix(prefix)
       IN Only({ collectContexts(next, chain, left \ {prefix}) :
                   next \in { addSuffixes(addPrefixTokens(tc, prefixTokens, 1), prefixTokens,
                                          chain[prefix], DOMAIN chain[prefix]) } })

tokenContextsOf(chain) == collectContexts(<< >>, chain, DOMAIN chain)

\* 1000 * log2(n), rounded; halving beyond the table
RECURSIVE Log2Milli(_)
Log2Milli(n) ==
  IF n <= 16 THEN << 0, 1000, 1585, 2000, 2322, 2585, 2807, 3000,
                     3170, 3322, 3459, 3585, 3700, 3807, 3907, 4000 >>[n]
  ELSE 1000 + Log2Milli(n \div 2)

\* math.MaxFloat64, in thousandths
MaxFloat == 1000 * 1000 * 1000

\* Shannon entropy in thousandths of a bit: -sum p*log2(p) = log2(total) - sum(c*log2(c))/total
calculateEntropy(contexts) ==
  LET total == SumOver(contexts, DOMAIN contexts) IN
  IF total = 0 THEN MaxFloat
  ELSE LET weighted == [k \in DOMAIN contexts |-> contexts[k] * Log2Milli(contexts[k])]
       IN Log2Milli(total) - (SumOver(weighted, DOMAIN contexts) \div total)

\* g.tokenEntropy after analyzeEntropy
analyzeEntropy(chain) ==
  LET tc == tokenContextsOf(chain) IN [token \in DOMAIN tc |-> calculateEntropy(tc[token])]

\* the threshold of isThematicToken, 2.0, in thousandths
ThematicThreshold == 2000

isThematicToken(entropyMap, token) ==
  IF token \notin DOMAIN entropyMap THEN FALSE ELSE entropyMap[token] < ThematicThreshold

getThematicKeywords(entropyMap, keywords) ==
  SelectSeq(keywords, LAMBDA k : isThematicToken(entropyMap, k))

stopWords ==
  { <<1095, 1090, 1086>>,                                   \* что
    <<1082, 1072, 1082>>,                                   \* как
    <<1079, 1072, 1095, 1077, 1084>>,                       \* зачем
    <<1087, 1086, 1095, 1077, 1084, 1091>>,                 \* почему
    <<1075, 1076, 1077>>,                                   \* где
    <<1082, 1086, 1075, 1076, 1072>>,                       \* когда
    <<1082, 1072, 1082, 1086, 1081>>,                       \* какой
    <<1082, 1072, 1082, 1072, 1103>>,                       \* какая
    <<1082, 1072, 1082, 1086, 1077>>,                       \* какое
    <<1082, 1072, 1082, 1080, 1077>>,                       \* какие
    <<1086, 1073, 1098, 1103, 1089, 1085, 1080>>,           \* объясни
    <<1088, 1072, 1089, 1089, 1082, 1072, 1078, 1080>>,     \* расскажи
    <<1087, 1086, 1078, 1072, 1083, 1091, 1081, 1089, 1090, 1072>>,  \* пожалуйста
    <<1084, 1086, 1075>>,                                   \* мог
    <<1073, 1099>>,                                         \* бы
    <<1083, 1080>>,                                         \* ли
    StartTok, EndTok }

\* the filter of extractKeywords: len(token) is the byte length
isKeyword(token) == token \notin stopWords /\ ByteLen(token) > 1 /\ ~isPunctuation(token)

extractKeywords(question, keepPunctuation) ==
  SelectSeq(Tokenize(question, keepPunctuation), isKeyword)

\* number of token occurrences of a sentence that equal some keyword (lines 392-399)
keywordHits(tokens, keywords) ==
  Cardinality({ i \in DOMAIN tokens : tokens[i] \in Range(keywords) })

RECURSIVE bestFrom(_, _, _, _, _, _)
bestFrom(sentences, keywords, keepPunctuation, i, bestScore, bestSentence) ==
  IF i > Len(sentences) THEN bestSentence
  ELSE LET score == keywordHits(Tokenize(sentences[i], keepPunctuation), keywords) IN
       IF score > bestScore
       THEN bestFrom(sentences, keywords, keepPunctuation, i + 1, score, sentences[i])
       ELSE bestFrom(sentences, keywords, keepPunctuation, i + 1, bestScore, bestSentence)

findBestSentence(sentences, keywords, keepPunctuation) ==
  IF Len(sentences) = 0 THEN << >>
  ELSE bestFrom(sentences, keywords, keepPunctuation, 1, -1, sentences[1])

\* cleanTokens of generateFromSentence
cleanTokensOf(sentence, keepPunctuation) ==
  SelectSeq(Tokenize(sentence, keepPunctuation), LAMBDA t : t # StartTok /\ t # EndTok)

\* the score of the window tokens[i:end], in thousandths (lines 251-264)
windowScore(segment, keywords, entropyMap) ==
  LET hit == { j \in DOMAIN segment : segment[j] \in Range(keywords) }
      part == [j \in hit |->
                 IF segment[j] \in DOMAIN entropyMap
                 THEN (1000 * 1000) \div (entropyMap[segment[j]] + 100)
                 ELSE 500]
  IN SumOver(part, hit)

RECURSIVE scanStart(_, _, _, _, _, _, _)
scanStart(tokens, keywords, chain, order, entropyMap, i, best) ==
  IF i > Len(tokens) - order + 1 THEN best.pos
  ELSE LET end == Min(i + order - 1, Len(tokens))
           segment == Slice(tokens, i, end)
       IN IF joinTokens(segment) \notin DOMAIN chain
          THEN scanStart(tokens, keywords, chain, order, entropyMap, i + 1, best)
          ELSE LET score == windowScore(segment, keywords, entropyMap) IN
               scanStart(tokens, keywords, chain, order, entropyMap, i + 1,
                         IF score > best.score THEN [pos |-> i, score |-> score] ELSE best)

findThematicStartPosition(tokens, keywords, chain, order, entropyMap) ==
  scanStart(tokens, keywords, chain, order, entropyMap, 0, [pos |-> 0, score |-> -1000])

\* the factor of selectThematicToken, in thousandths (lines 332-342)
thematicFactor(token, keywords, entropyMap) ==
  IF token \in Range(keywords)
  THEN IF token \in DOMAIN entropyMap /\ entropyMap[token] < 2000
       THEN 3000 - entropyMap[token]
       ELSE 1500
  ELSE 1000

\* weight = prob * factor before the division by totalWeight; num/den with the
\* common den of one distribution left out
weightsOf(probabilities, keywords, entropyMap) ==
  [token \in DOMAIN probabilities |->
     probabilities[token].num * thematicFactor(token, keywords, entropyMap)]

\* cumulative weight after the first i tokens of a visiting order
RECURSIVE cumulative(_, _, _)
cumulative(weights, visit, i) ==
  IF i = 0 THEN 0 ELSE weights[visit[i]] + cumulative(weights, visit, i - 1)

\* selectNextToken for one order of the map iteration and one draw r = draw/RSteps:
\* the first token with r <= cumulative (weights normalised by their total);
\* without one, the first of the greatest weight
RSteps == 4

selectWith(weights, visit, draw) ==
  LET total == SumOver(weights, DOMAIN weights)
      ok == { i \in 1..Len(visit) : draw * total <= cumulative(weights, visit, i) * RSteps }
  IN IF ok # {} THEN visit[CHOOSE i \in ok : \A j \in ok : i <= j]
     ELSE visit[CHOOSE i \in 1..Len(visit) :
                  /\ \A j \in 1..Len(visit) : weights[visit[j]] <= weights[visit[i]]
                  /\ \A j \in 1..(i - 1) : weights[visit[j]] < weights[visit[i]]]

\* the random source is seeded from the clock in every call (line 412) and the map
\* is visited in an order of the runtime's choosing: every draw and every order
selectNextToken(weights) ==
  UNION { { selectWith(w, visit, draw) :
              visit \in Perms(DOMAIN w), draw \in 0..(RSteps - 1) } : w \in {weights} }

selectThematicToken(probabilities, keywords, entropyMap) ==
  selectNextToken(weightsOf(probabilities, keywords, entropyMap))

\* capacity of a slice grown from nil by appending n elements one at a time
\* (runtime growslice doubles a small slice): the least power of two >= n
RECURSIVE GoCapFrom(_, _)
GoCapFrom(n, c) == IF c >= n THEN c ELSE GoCapFrom(n, 2 * c)

GoCap(n) == IF n = 0 THEN 0 ELSE GoCapFrom(n, 1)

\* tokens after append(tokens[startIdx:currentPos], result...) (line 294): with room
\* in the backing array the elements of result are written over
\* tokens[currentPos], tokens[currentPos+1], ...
appendInPlace(tokens, currentPos, result) ==
  IF currentPos + Len(result) <= GoCap(Len(tokens))
  THEN [i \in 1..Len(tokens) |->
          IF i > currentPos /\ i <= currentPos + Len(result)
          THEN result[i - currentPos] ELSE tokens[i]]
  ELSE tokens

\* currentPrefix of one iteration and the source tokens it leaves (lines 288-295)
contextOf(tokens, result, currentPos, order) ==
  IF Len(result) >= order - 1
  THEN [prefix |-> Slice(result, Len(result) - order + 1, Len(result)), tokens |-> tokens]
  ELSE LET needed == order - 1 - Len(result)
           startIdx == Max(0, currentPos - needed)
       IN [prefix |-> Slice(tokens, startIdx, currentPos) \o result,
           tokens |-> appendInPlace(tokens, currentPos, result)]

\* the condition of the continuation loop (line 287); maxAttempts := 10
maxAttempts == 10

loopCondition(st, maxLen) ==
  /\ Len(st.result) < maxLen
  /\ st.currentPos < Len(st.tokens)
  /\ st.attempts < maxAttempts

\* a sampled successor appended without touching the stall counter
sampledStepKeeping(st, tokens, nextToken) ==
  IF nextToken = EndTok
  THEN [st EXCEPT !.tokens = tokens, !.broke = TRUE]
  ELSE [st EXCEPT !.tokens = tokens, !.result = Append(st.result, nextToken)]

\* a successor was sampled (lines 299-306)
sampledStep(st, tokens, nextToken) ==
  IF nextToken = EndTok
  THEN [st EXCEPT !.tokens = tokens, !.broke = TRUE]
  ELSE [st EXCEPT !.tokens = tokens, !.result = Append(st.result, nextToken), !.attempts = 0]

\* a stall that only counts the attempt
stallStepIdle(st, tokens) == [st EXCEPT !.tokens = tokens, !.attempts = st.attempts + 1]

\* no successor distribution: the next source token is copied (lines 308-312)
stallStep(st, tokens) ==
  IF st.currentPos < Len(tokens)
  THEN [st EXCEPT !.tokens = tokens,
                  !.result = Append(st.result, tokens[st.currentPos + 1]),
                  !.currentPos = st.currentPos + 1,
                  !.attempts = st.attempts + 1]
  ELSE [st EXCEPT !.tokens = tokens, !.attempts = st.attempts + 1]

\* every state one iteration of the loop can lead to
loopBody(st, chain, sums, order, keywords, entropyMap) ==
  UNION { LET nextTokens == GetNextTokens(chain, sums, ctx.prefix)
          IN IF DOMAIN nextTokens # {}
             THEN { sampledStep(st, ctx.tokens, nextToken) :
                      nextToken \in selectThematicToken(nextTokens, keywords, entropyMap) }
             ELSE { stallStep(st, ctx.tokens) }
          : ctx \in {contextOf(st.tokens, st.result, st.currentPos, order)} }

\* the tail fill after the loop (lines 316-319)
tailFill(st, maxLen) ==
  IF Len(st.result) < maxLen \div 2 /\ st.currentPos < Len(st.tokens)
  THEN LET remaining == Min(maxLen - Len(st.result), Len(st.tokens) - st.currentPos) IN
       st.result \o Slice(st.tokens, st.currentPos, st.currentPos + remaining)
  ELSE st.result

\* strings.ReplaceAll(s, old, "")
RECURSIVE RemoveAll(_, _)
RemoveAll(s, old) ==
  IF Len(s) < Len(old) THEN s
  ELSE IF SubSeq(s, 1, Len(old)) = old THEN RemoveAll(SubSeq(s, Len(old) + 1, Len(s)), old)
  ELSE <<Head(s)>> \o RemoveAll(Tail(s), old)

\* \s of regexp: [\t\n\f\r ]
IsReSpace(r) == r \in {9, 10, 12, 13, 32}

RECURSIVE skipSpaces(_, _)
skipSpaces(s, i) == IF i <= Len(s) /\ IsReSpace(s[i]) THEN skipSpaces(s, i + 1) ELSE i

\* regexp `\s+` replaced by " ", from position i (1-based)
RECURSIVE collapseSpaces(_, _)
collapseSpaces(s, i) ==
  IF i > Len(s) THEN << >>
  ELSE IF IsReSpace(s[i]) THEN <<32>> \o collapseSpaces(s, skipSpaces(s, i))
  ELSE <<s[i]>> \o collapseSpaces(s, i + 1)

\* regexp `\s*c\s*` replaced by c and one space, from position i (1-based)
RECURSIVE spaceAfter(_, _, _)
spaceAfter(s, c, i) ==
  IF i > Len(s) THEN << >>
  ELSE LET j == skipSpaces(s, i) IN
       IF j <= Len(s) /\ s[j] = c
       THEN <<c, 32>> \o spaceAfter(s, c, skipSpaces(s, j + 1))
       ELSE <<s[i]>> \o spaceAfter(s, c, i + 1)

formatAnswer(answer) ==
  LET a1 == RemoveAll(RemoveAll(answer, StartTok), EndTok)
      a2 == collapseSpaces(TrimSpace(a1), 1)
      a3 == spaceAfter(a2, 44, 1)
      a4 == TrimSpace(spaceAfter(a3, 46, 1))
      a5 == IF Len(a4) > 0 THEN <<ToUpperRune(a4[1])>> \o Tail(a4) ELSE a4
  IN IF Len(a5) > 0 /\ a5[Len(a5)] \notin {46, 33, 63} THEN Append(a5, 46) ELSE a5

\* "Пожалуйста, задайте вопрос."
ClarifyMsg ==
  <<1055, 1086, 1078, 1072, 1083, 1091, 1081, 1089, 1090, 1072, 44, 32, 1079, 1072,
    1076, 1072, 1081, 1090, 1077, 32, 1074, 1086, 1087, 1088, 1086, 1089, 46>>

\* "К сожалению, я не нашел информации по вашему вопросу в изученном материале."
NotFoundMsg ==
  <<1050, 32, 1089, 1086, 1078, 1072, 1083, 1077, 1085, 1080, 1102, 44, 32, 1103, 32,
    1085, 1077, 32, 1085, 1072, 1096, 1077, 1083, 32, 1080, 1085, 1092, 1086, 1088,
    1084, 1072, 1094, 1080, 1080, 32, 1087, 1086, 32, 1074, 1072, 1096, 1077, 1084,
    1091, 32, 1074, 1086, 1087, 1088, 1086, 1089, 1091, 32, 1074, 32, 1080, 1079,
    1091, 1095, 1077, 1085, 1085, 1086, 1084, 32, 1084, 1072, 1090, 1077, 1088, 1080,
    1072, 1083, 1077, 46>>

\* the search key set of GenerateAnswer (lines 198-203)
searchKeywordsOf(keywords, entropyMap) ==
  LET thematicKeywords == getThematicKeywords(entropyMap, keywords) IN
  IF Len(thematicKeywords) > 0 THEN thematicKeywords ELSE keywords

\* the number of candidates GenerateAnswer asks Search for (line 205)
SearchLimit == 5

(***************************************************************************)
(* Inputs: the raw sentences of the corpus and the batches handed to Train *)
(* (cmd train tokenizes with KeepPunctuation = true), the questions, the   *)
(* keyword lists handed to Search.                                         *)
(***************************************************************************)
CorpusText ==
  { <<111, 110, 32, 97, 32, 99, 97, 116>>,                 \* "on a cat"
    <<67, 97, 116, 32, 111, 110, 32, 99, 97, 116, 46>>,    \* "Cat on cat."
    <<101, 110, 100>> }                                    \* "end"

TrainSentences == { Tokenize(t, TRUE) : t \in CorpusText }

Batches == UNION { [1..n -> TrainSentences] : n \in 0..MaxBatch }

Questions ==
  { << >>,                                   \* ""
    <<1095, 1090, 1086, 63>>,                \* "что?"
    <<99, 97, 116>>,                         \* "cat"
    <<1063, 1090, 1086, 32, 111, 110, 32, 99, 97, 116, 63>>,   \* "Что on cat?"
    <<100, 111, 103>>,                       \* "dog"
    <<1103>>,                                \* "я"
    <<8212>> }                               \* "—"

\* cmd chat builds the generator with UsePunctuation: true
PunctuationModes == { TRUE }

\* cmd chat: --entropy, default 2.0, in thousandths of a bit
EntropyFlags == { 2000, 1800 }

KeywordLists ==
  { << >>,
    << <<100, 111, 103>> >>,                           \* dog
    << <<99, 97, 116>> >>,                             \* cat
    << <<99, 97, 116>>, <<99, 97, 116>> >>,            \* cat cat
    << <<97>>, <<99, 97, 116>>, <<100, 111, 103>> >> } \* a cat dog

(***************************************************************************)
(* State.                                                                  *)
(***************************************************************************)
VARIABLES
  Order,            \* MarkovChain.Order
  Chain,            \* MarkovChain.Chain: prefix key -> (suffix -> count)
  Sums,             \* MarkovChain.Sums: prefix key -> total
  Index,            \* MarkovChain.Index: token -> sentences
  Vocab,            \* MarkovChain.Vocab: token -> frequency
  nTrains,          \* number of Train calls made
  submitted,        \* the sentences handed to the Train calls that succeeded, in order
  built,            \* NewAnswerGenerator has returned
  maxLength,        \* AnswerGenerator.maxLength
  keepPunctuation,  \* the generator's tokenizer keeps punctuation
  tokenEntropy,     \* AnswerGenerator.tokenEntropy, in thousandths of a bit
  pc,               \* "idle", or "loop" inside generateThematicContinuation
  question,         \* the question being answered
  keywords,         \* searchKeywords of the call in progress
  loop,             \* tokens, result, currentPos, attempts of the call in progress, and
                    \* source: the tokens as generateThematicContinuation received them
  ret,              \* the last call that returned and what it returned
  prev              \* the answer last returned for the same question, if any

model == <<Order, Chain, Sums, Index, Vocab>>

generator == <<built, maxLength, keepPunctuation, tokenEntropy>>

call == <<pc, question, keywords, loop>>

vars == <<Order, Chain, Sums, Index, Vocab, nTrains, submitted, built, maxLength, keepPunctuation,
          tokenEntropy, pc, question, keywords, loop, ret, prev>>

NoLoop == [tokens |-> << >>, result |-> << >>, currentPos |-> 0, attempts |-> 0,
           broke |-> FALSE, source |-> << >>]

NoPrev == [known |-> FALSE, answer |-> << >>]

\* NewMarkovTrainer(config): empty maps, the configured order
Init ==
  /\ Order \in 2..MaxOrder
  /\ Chain = << >> /\ Sums = << >> /\ Index = << >> /\ Vocab = << >>
  /\ nTrains = 0 /\ submitted = << >>
  /\ built = FALSE /\ maxLength = 0 /\ keepPunctuation = FALSE /\ tokenEntropy = << >>
  /\ pc = "idle" /\ question = << >> /\ keywords = << >> /\ loop = NoLoop
  /\ ret = [op |-> "none"]
  /\ prev = NoPrev

Train(tokenizedSentences) ==
  /\ pc = "idle" /\ ~built
  /\ nTrains < MaxTrains
  /\ LET r == TrainResult([Order |-> Order, Chain |-> Chain, Sums |-> Sums,
                          Index |-> Index, Vocab |-> Vocab, err |-> FALSE],
                         tokenizedSentences)
     IN /\ Chain' = r.Chain /\ Sums' = r.Sums /\ Index' = r.Index /\ Vocab' = r.Vocab
        /\ ret' = [op |-> "Train", n |-> Len(tokenizedSentences), err |-> r.err]
  /\ nTrains' = nTrains + 1
  /\ submitted' = submitted \o tokenizedSentences
  /\ UNCHANGED <<Order, generator, call, prev>>

\* MarkovChain.Search called on the model
SearchCall(kws, limit) ==
  /\ pc = "idle" /\ ~built
  /\ \E results \in Search(Index, kws, limit) :
       ret' = [op |-> "Search", keywords |-> kws, limit |-> limit, value |-> results,
               scores |-> scoreSentences(<< >>, Index, kws, 1)]
  /\ UNCHANGED <<model, nTrains, submitted, generator, call, prev>>

\* config.MaxThematicEntropy is handed in and stored nowhere (lines 41-48)
NewAnswerGenerator(maxLen, usePunctuation, maxThematicEntropy) ==
  /\ pc = "idle" /\ ~built
  /\ built' = TRUE
  /\ maxLength' = maxLen
  /\ keepPunctuation' = usePunctuation
  /\ tokenEntropy' = analyzeEntropy(Chain)
  /\ ret' = [op |-> "NewAnswerGenerator",
             config |-> [MaxLength |-> maxLen, UsePunctuation |-> usePunctuation,
                         MaxThematicEntropy |-> maxThematicEntropy]]
  /\ UNCHANGED <<model, nTrains, submitted, call, prev>>

\* what a GenerateAnswer call returns
Answered(q, outcome, searched, result, answer) ==
  [op |-> "GenerateAnswer", question |-> q, outcome |-> outcome, searched |-> searched,
   result |-> result, answer |-> answer]

\* GenerateAnswer up to the continuation loop, for one list returned by Search
beginAnswer(q, relevantSentences) ==
  LET all == extractKeywords(q, keepPunctuation)
      searchKeywords == searchKeywordsOf(all, tokenEntropy)
      bestSentence == findBestSentence(relevantSentences, searchKeywords, keepPunctuation)
      cleanTokens == cleanTokensOf(bestSentence, keepPunctuation)
      startPos == findThematicStartPosition(cleanTokens, searchKeywords, Chain, Order,
                                            tokenEntropy)
  IN IF Len(all) = 0
     THEN [pc |-> "idle", keywords |-> << >>, loop |-> NoLoop,
           ret |-> Answered(q, "clarify", FALSE, << >>, ClarifyMsg)]
     ELSE IF Len(relevantSentences) = 0
     THEN [pc |-> "idle", keywords |-> << >>, loop |-> NoLoop,
           ret |-> Answered(q, "notfound", TRUE, << >>, NotFoundMsg)]
     ELSE IF Len(cleanTokens) = 0
     THEN [pc |-> "idle", keywords |-> << >>, loop |-> NoLoop,
           ret |-> Answered(q, "verbatim", TRUE, << >>, formatAnswer(bestSentence))]
     ELSE [pc |-> "loop", keywords |-> searchKeywords,
           loop |-> [tokens |-> cleanTokens, result |-> Slice(cleanTokens, 0, startPos),
                     currentPos |-> startPos, attempts |-> 0, broke |-> FALSE,
                     source |-> cleanTokens],
           ret |-> [op |-> "running", candidates |-> relevantSentences,
                    best |-> bestSentence]]

GenerateAnswer(q) ==
  /\ pc = "idle" /\ built
  /\ LET all == extractKeywords(q, keepPunctuation)
         lists == IF Len(all) = 0 THEN { << >> }
                  ELSE Search(Index, searchKeywordsOf(all, tokenEntropy), SearchLimit)
     IN \E relevantSentences \in lists :
          LET b == beginAnswer(q, relevantSentences) IN
          /\ pc' = b.pc /\ keywords' = b.keywords /\ loop' = b.loop /\ ret' = b.ret
  /\ question' = q
  /\ prev' = IF ret.op = "GenerateAnswer" /\ ret.question = q
             THEN [known |-> TRUE, answer |-> ret.answer] ELSE NoPrev
  /\ UNCHANGED <<model, nTrains, submitted, generator>>

\* an iteration whose lookup registers the prefix it asked for in the chain
ContinuationStepRegistering ==
  /\ pc = "loop" /\ ~loop.broke /\ loopCondition(loop, maxLength)
  /\ loop' \in loopBody(loop, Chain, Sums, Order, keywords, tokenEntropy)
  /\ LET prefixKey == joinTokens(contextOf(loop.tokens, loop.result, loop.currentPos,
                                           Order).prefix)
     IN Chain' = Put(Chain, prefixKey, Get(Chain, prefixKey, << >>))
  /\ UNCHANGED <<Order, Sums, Index, Vocab, nTrains, submitted, generator, pc, question,
                 keywords, ret, prev>>

\* one iteration of the continuation loop
ContinuationStep ==
  /\ pc = "loop" /\ ~loop.broke /\ loopCondition(loop, maxLength)
  /\ loop' \in loopBody(loop, Chain, Sums, Order, keywords, tokenEntropy)
  /\ UNCHANGED <<model, nTrains, submitted, generator, pc, question, keywords, ret, prev>>

\* the loop is left: tail fill, JoinTokens, formatAnswer, return
ContinuationEnd ==
  /\ pc = "loop" /\ (loop.broke \/ ~loopCondition(loop, maxLength))
  /\ LET result == tailFill(loop, maxLength) IN
     ret' = Answered(question, "generated", TRUE, result, formatAnswer(JoinTokens(result)))
  /\ pc' = "idle" /\ loop' = NoLoop /\ keywords' = << >>
  /\ UNCHANGED <<model, nTrains, submitted, generator, question, prev>>

Next ==
  \/ \E b \in Batches : Train(b)
  \/ \E kws \in KeywordLists, limit \in 0..MaxLimit : SearchCall(kws, limit)
  \/ \E maxLen \in 0..MaxLen, usePunctuation \in PunctuationModes,
          maxThematicEntropy \in EntropyFlags :
       NewAnswerGenerator(maxLen, usePunctuation, maxThematicEntropy)
  \/ \E q \in Questions : GenerateAnswer(q)
  \/ ContinuationStep
  \/ ContinuationEnd

Spec == Init /\ [][Next]_vars

\* the call is sequential code: while the loop condition holds, the next iteration runs
FairSpec == Spec /\ WF_vars(ContinuationStep)

(***************************************************************************)
(* Properties.                                                             *)
(***************************************************************************)
Boundary == {StartTok, EndTok}

\* C1: after a successful Train (also a repeated one) Sums[p] is the sum of the
\* successor counts of Chain[p] for every prefix p, and Sums has no other key.
C1_SumsMatchChain ==
  (ret.op = "Train" /\ ~ret.err) =>
     /\ DOMAIN Sums = DOMAIN Chain
     /\ \A p \in DOMAIN Chain : Sums[p] = SumOver(Chain[p], DOMAIN Chain[p])

\* a second successful Train has raised a prefix that was already counted
C1_Witness ==
  /\ ret.op = "Train" /\ ~ret.err /\ nTrains = 2 /\ Len(submitted) = 2
  /\ \E p \in DOMAIN Chain : Sums[p] >= 3

\* C2: a Train call with an empty collection returns an error and leaves Chain,
\* Sums, Index and Vocab as they were; a call with a non-empty one returns none.
C2_EmptyTrainFails ==
  [][ nTrains' = nTrains + 1 =>
        /\ ret'.op = "Train"
        /\ (ret'.n = 0 => ret'.err /\ UNCHANGED <<Chain, Sums, Index, Vocab>>)
        /\ (ret'.n > 0 => ~ret'.err) ]_vars

\* an empty Train was refused on a model that holds data
C2_Witness == ret.op = "Train" /\ ret.n = 0 /\ ret.err /\ DOMAIN Chain # {} /\ DOMAIN Index # {}

\* C3: the token sequence generateThematicContinuation produces never has more
\* tokens than the configured maximum length (stated for a maximum length >= 1,
\* where an answer of one token fits).
C3_OutputWithinMaxLength ==
  (ret.op = "GenerateAnswer" /\ ret.outcome = "generated" /\ maxLength >= 1)
     => Len(ret.result) <= maxLength

\* the loop of the call in progress is over: break, or its condition is false
loopLeft == pc = "idle" \/ loop.broke \/ ~loopCondition(loop, maxLength)

\* C4: the continuation loop terminates: every iteration ends the loop or makes the
\* output one token longer, the output of an iteration stays within the maximum
\* length, and a call that entered the loop leaves it.
C4_LoopTerminates ==
  /\ [][ (pc = "loop" /\ pc' = "loop") =>
           /\ loop'.broke \/ Len(loop'.result) = Len(loop.result) + 1
           /\ Len(loop'.result) <= maxLength ]_vars
  /\ (pc = "loop" ~> loopLeft)

\* two iterations in a row found no successor distribution
C4_Witness == pc = "loop" /\ loop.attempts >= 2 /\ Len(loop.result) >= 2

\* the number of positions of the keyword list under which a sentence is indexed
ScoreOf(sentence, kws) ==
  Cardinality({ i \in DOMAIN kws :
                  kws[i] \in DOMAIN Index /\ sentence \in Range(Index[kws[i]]) })

IndexedSentences == UNION { Range(Index[t]) : t \in DOMAIN Index }

\* C5: Search returns at most limit sentences, each with a score >= 1, in order of
\* non-increasing score; no sentence left out scores more than a returned one; the
\* result is empty when no keyword is in the index.
C5_SearchRanked ==
  ret.op = "Search" =>
    LET v == ret.value
        kws == ret.keywords
    IN /\ Len(v) <= ret.limit
       /\ \A i \in DOMAIN v : ScoreOf(v[i], kws) >= 1
       /\ \A i, j \in DOMAIN v : i < j => ScoreOf(v[i], kws) >= ScoreOf(v[j], kws)
       /\ \A s \in IndexedSentences \ Range(v) :
            \A i \in DOMAIN v : ScoreOf(s, kws) <= ScoreOf(v[i], kws)
       /\ (\A i \in DOMAIN kws : kws[i] \notin DOMAIN Index) => v = << >>

\* the limit cut off a sentence that scores less than the one returned
C5_Witness ==
  /\ ret.op = "Search" /\ ret.limit = 1 /\ Len(ret.value) = 1
  /\ \E s \in IndexedSentences :
       /\ ScoreOf(s, ret.keywords) >= 1
       /\ ScoreOf(s, ret.keywords) < ScoreOf(ret.value[1], ret.keywords)

\* every token of the question is a stop-word, a boundary marker, a punctuation
\* token of the tokenizer or a token of one character
OnlyDroppable(q) ==
  \A t \in Range(Tokenize(q, keepPunctuation)) :
    \/ t \in stopWords \/ t \in Boundary
    \/ (Len(t) = 1 /\ TokPunctRune(t[1]))
    \/ Len(t) <= 1

\* C6: GenerateAnswer on the empty question, or on a question of stop-words,
\* boundary markers, punctuation and one-character tokens only, returns the
\* clarification message without retrieval and without sampling.
C6_ClarifyOnNoKeywords ==
  /\ (pc = "loop" => ~OnlyDroppable(question))
  /\ (ret.op = "GenerateAnswer" /\ OnlyDroppable(ret.question)) =>
        (ret.answer = ClarifyMsg /\ ~ret.searched)

(***************************************************************************)
(* A corpus that holds the sentence of the "not found" message itself,     *)
(* asked about with maximum lengths that let the whole sentence through.   *)
(***************************************************************************)
EchoBatches ==
  { << >> } \cup
  { << Tokenize(t, TRUE) >> : t \in { NotFoundMsg, <<111, 110, 32, 97, 32, 99, 97, 116>> } }

EchoQuestions ==
  { <<1089, 1086, 1078, 1072, 1083, 1077, 1085, 1080, 1102>>,   \* "сожалению"
    <<100, 111, 103>>,                                          \* "dog"
    <<99, 97, 116>> }                                           \* "cat"

EchoLengths == { 4, 20 }

EchoNext ==
  \/ \E b \in EchoBatches : Train(b)
  \/ \E maxLen \in EchoLengths, usePunctuation \in PunctuationModes :
       NewAnswerGenerator(maxLen, usePunctuation, ThematicThreshold)
  \/ \E q \in EchoQuestions : GenerateAnswer(q)
  \/ ContinuationStep
  \/ ContinuationEnd

SpecEcho == Init /\ [][EchoNext]_vars

\* the question yields a keyword and no search keyword is a key of the index
NoMatch(q) ==
  LET all == extractKeywords(q, keepPunctuation) IN
  /\ Len(all) > 0
  /\ \A i \in DOMAIN searchKeywordsOf(all, tokenEntropy) :
       searchKeywordsOf(all, tokenEntropy)[i] \notin DOMAIN Index

\* C7 as stated: GenerateAnswer returns the "not found" message when the question
\* yields a keyword and no search keyword matches an index entry, and only then.
C7_NotFoundOnlyThen ==
  ret.op = "GenerateAnswer" => (ret.answer = NotFoundMsg <=> NoMatch(ret.question))

\* C7, amended: GenerateAnswer returns the "not found" message when the question
\* yields a keyword and no search keyword matches an index entry; an answer that
\* was not generated from a retrieved sentence is that message only in this case.
C7_NotFoundOnNoMatch ==
  ret.op = "GenerateAnswer" =>
    /\ NoMatch(ret.question) => (ret.answer = NotFoundMsg /\ ret.outcome = "notfound")
    /\ (ret.answer = NotFoundMsg /\ ret.outcome \notin {"generated", "verbatim"})
         => NoMatch(ret.question)
    /\ ret.outcome = "notfound" => ret.answer = NotFoundMsg

\* a question about a token the trained model has never indexed
C7_Witness ==
  /\ ret.op = "GenerateAnswer" /\ NoMatch(ret.question) /\ ret.answer = NotFoundMsg
  /\ DOMAIN Index # {}

\* C8: with a fixed model and a fixed question every invocation of GenerateAnswer
\* returns the same answer.
C8_SameAnswer ==
  (ret.op = "GenerateAnswer" /\ prev.known) => ret.answer = prev.answer

\* every submitted sentence contains the token k
InEverySentence(k) ==
  /\ Len(submitted) > 0
  /\ \A i \in DOMAIN submitted : k \in Range(submitted[i])

\* C9: for a corpus whose sentences all contain k and a question whose only keyword
\* is k, GenerateAnswer (maximum length >= 1) returns a non-empty answer that
\* contains k, starts with an upper-cased character and ends in '.', '!' or '?'.
C9_AnswerContainsKeyword ==
  \A k \in DOMAIN Index :
    ( /\ ret.op = "GenerateAnswer"
      /\ maxLength >= 1
      /\ InEverySentence(k)
      /\ extractKeywords(ret.question, keepPunctuation) = <<k>> )
    => /\ ret.answer # << >>
       /\ Contains(ToLower(ret.answer), k)
       /\ ret.answer[1] = ToUpperRune(ret.answer[1])
       /\ ret.answer[Len(ret.answer)] \in {46, 33, 63}

\* the orders of the tokens of a prefix
Rearranged(tokens) ==
  { [i \in DOMAIN tokens |-> tokens[p[i]]] : p \in Perms(DOMAIN tokens) }

\* the chain with the key of one prefix replaced
Rekeyed(chain, old, new) ==
  [k \in ((DOMAIN chain) \ {old}) \cup {new} |-> IF k = new THEN chain[old] ELSE chain[k]]

\* C10: prefixes that are permutations of one another have the same context key, and
\* replacing a prefix of the chain by a permutation of its tokens (one that is not a
\* prefix of the chain already) leaves every histogram and every entropy unchanged.
C10_PermutationInvariant ==
  ret.op = "NewAnswerGenerator" =>
    \A key \in DOMAIN Chain :
      \A other \in Rearranged(parsePrefix(key)) :
        /\ createContextKey(other) = createContextKey(parsePrefix(key))
        /\ joinTokens(other) \notin DOMAIN Chain =>
             LET rekeyed == Rekeyed(Chain, key, joinTokens(other)) IN
             /\ tokenContextsOf(rekeyed) = tokenContextsOf(Chain)
             /\ analyzeEntropy(rekeyed) = tokenEntropy

\* the chain holds two prefixes that are permutations of one another, and a prefix
\* with a permutation that is not in the chain
C10_Witness ==
  /\ ret.op = "NewAnswerGenerator"
  /\ \E key \in DOMAIN Chain : \E other \in Rearranged(parsePrefix(key)) :
       other # parsePrefix(key) /\ joinTokens(other) \in DOMAIN Chain
  /\ \E key \in DOMAIN Chain : \E other \in Rearranged(parsePrefix(key)) :
       other # parsePrefix(key) /\ joinTokens(other) \notin DOMAIN Chain

\* C11: for a generator built with the configured threshold T, a token is classified
\* thematic if and only if it has an entry in the token-entropy map and that entropy
\* is strictly below T; a token without an entry is never classified thematic.
C11_ThematicBelowConfigured ==
  ret.op = "NewAnswerGenerator" =>
    \A token \in (DOMAIN Vocab) \cup (DOMAIN tokenEntropy) \cup {<<100, 111, 103>>} :
      isThematicToken(tokenEntropy, token)
        <=> (token \in DOMAIN tokenEntropy
             /\ tokenEntropy[token] < ret.config.MaxThematicEntropy)

FirstSeen(rendering) ==
  Min(Len(submitted) + 1,
      CHOOSE i \in 1..(Len(submitted) + 1) :
        /\ i <= Len(submitted) => joinSentence(submitted[i]) = rendering
        /\ \A j \in 1..(i - 1) : joinSentence(submitted[j]) # rendering)

\* C13: among sentences of equal score Search returns them in the order in which
\* they were first submitted to training, also at the cut-off: a sentence left out
\* with the score of a returned one was first seen after it.
C13_TiesInFirstSeenOrder ==
  ret.op = "Search" =>
    LET v == ret.value
        kws == ret.keywords
    IN /\ \A i, j \in DOMAIN v :
            (i < j /\ ScoreOf(v[i], kws) = ScoreOf(v[j], kws))
               => FirstSeen(v[i]) < FirstSeen(v[j])
       /\ \A sentence \in IndexedSentences \ Range(v) : \A i \in DOMAIN v :
            ScoreOf(sentence, kws) = ScoreOf(v[i], kws)
               => FirstSeen(v[i]) < FirstSeen(sentence)

\* C14: a stall step appends the token at the cursor of the sentence's token
\* sequence as it was when the continuation began and moves the cursor by one (after
\* a stall the last output token is the source token before the cursor); building
\* the context never alters a source token, so the tail fill copies original tokens
\* as well.
C14_SourceTokensIntact ==
  pc = "loop" =>
    /\ loop.tokens = loop.source
    /\ loop.attempts > 0 =>
         /\ loop.currentPos >= 1 /\ loop.result # << >>
         /\ loop.result[Len(loop.result)] = loop.source[loop.currentPos]

\* the distinct keywords of the list under which a sentence is indexed
DistinctHits(sentence, kws) ==
  { k \in Range(kws) : k \in DOMAIN Index /\ sentence \in Range(Index[k]) }

\* C15: the score Search gives a sentence is the number of distinct queried keywords
\* under which the sentence is indexed, whatever the number of times a keyword
\* occurs in the query.
C15_ScoreCountsDistinctKeywords ==
  ret.op = "Search" =>
    \A sentence \in DOMAIN ret.scores :
      ret.scores[sentence] = Cardinality(DistinctHits(sentence, ret.keywords))

\* the distinct search keywords among the tokens of a sentence
DistinctKeywordsIn(sentence) ==
  Range(keywords) \cap Range(Tokenize(sentence, keepPunctuation))

\* C16: findBestSentence returns the candidate holding the largest number of distinct
\* search keywords, and of several such candidates the first in the list.
C16_BestByDistinctKeywords ==
  ret.op = "running" =>
    \E i \in DOMAIN ret.candidates :
      /\ ret.candidates[i] = ret.best
      /\ \A j \in DOMAIN ret.candidates :
           /\ Cardinality(DistinctKeywordsIn(ret.candidates[j]))
                <= Cardinality(DistinctKeywordsIn(ret.best))
           /\ j < i => Cardinality(DistinctKeywordsIn(ret.candidates[j]))
                         < Cardinality(DistinctKeywordsIn(ret.best))

\* C17: the histogram of a token for a context key grows by the transition count of
\* the observation, so a successor seen c times after a prefix has a weight of at
\* least c for the context key of that prefix.
C17_HistogramWeighsByCount ==
  ret.op = "NewAnswerGenerator" =>
    \A prefix \in DOMAIN Chain : \A suffix \in DOMAIN Chain[prefix] :
      Get(Get(tokenContextsOf(Chain), suffix, << >>),
          createContextKey(parsePrefix(prefix)), 0) >= Chain[prefix][suffix]

\* a stop-word, a boundary marker, a punctuation token of the tokenizer or a token
\* of one character
DroppedToken(t) ==
  \/ t \in stopWords \/ t \in Boundary
  \/ (Len(t) = 1 /\ TokPunctRune(t[1]))
  \/ Len(t) <= 1

\* C18: extractKeywords returns no stop-word, no boundary marker, no punctuation
\* token of the tokenizer and no token of one character, and returns every other
\* token of the question in question order.
C18_KeywordsAreTheKeptTokens ==
  ret.op \in {"GenerateAnswer", "running"} =>
    extractKeywords(question, keepPunctuation)
      = SelectSeq(Tokenize(question, keepPunctuation), LAMBDA t : ~DroppedToken(t))

\* the non-boundary tokens of the submitted sentences
SubmittedTokens == UNION { Range(submitted[i]) : i \in DOMAIN submitted } \ Boundary

\* C19: after Train, Index[t] lists the renderings of the submitted sentences that
\* contain t, in the order of submission and without duplicates, and a rendering
\* holds neither the start nor the end marker text.
C19_IndexListsStrippedSentences ==
  (ret.op = "Train" /\ ~ret.err) =>
    /\ DOMAIN Index = SubmittedTokens
    /\ \A t \in DOMAIN Index :
         /\ Range(Index[t])
              = { joinSentence(submitted[i]) :
                    i \in { j \in DOMAIN submitted : t \in Range(submitted[j]) } }
         /\ \A i, j \in DOMAIN Index[t] :
              i < j => FirstSeen(Index[t][i]) < FirstSeen(Index[t][j])
         /\ \A i \in DOMAIN Index[t] :
              ~Contains(Index[t][i], StartTok) /\ ~Contains(Index[t][i], EndTok)

(***************************************************************************)
(* Training alone, with an order above the length of a one-word sentence.  *)
(***************************************************************************)
\* cmd train: --order
TrainOrders == { 2, 4 }

TrainBatches ==
  LET texts == CorpusText \cup { <<99, 97, 116>> }           \* "cat"
      sentences == { Tokenize(t, TRUE) : t \in texts }
  IN UNION { [1..n -> sentences] : n \in 0..2 }

InitTrain ==
  /\ Order \in TrainOrders
  /\ Chain = << >> /\ Sums = << >> /\ Index = << >> /\ Vocab = << >>
  /\ nTrains = 0 /\ submitted = << >>
  /\ built = FALSE /\ maxLength = 0 /\ keepPunctuation = FALSE /\ tokenEntropy = << >>
  /\ pc = "idle" /\ question = << >> /\ keywords = << >> /\ loop = NoLoop
  /\ ret = [op |-> "none"]
  /\ prev = NoPrev

TrainNext == \E b \in TrainBatches : Train(b)

SpecTrain == InitTrain /\ [][TrainNext]_vars

\* the positions <<n, j>> at which a window of Order tokens starts in a submitted
\* sentence of at least Order tokens
WindowPositions ==
  UNION { { <<n, j>> : j \in 1..(Len(submitted[n]) - Order + 1) } :
            n \in { m \in DOMAIN submitted : Len(submitted[m]) >= Order } }

WindowPrefix(x) == SubSeq(submitted[x[1]], x[2], x[2] + Order - 2)

WindowSuccessor(x) == submitted[x[1]][x[2] + Order - 1]

Occurrences(t) ==
  Cardinality({ x \in UNION { { <<n, j>> : j \in DOMAIN submitted[n] } : n \in DOMAIN submitted } :
                  submitted[x[1]][x[2]] = t })

\* C20: after Train on a fresh model of order N, Chain[p][s] is the number of
\* positions, over the submitted sentences of at least N tokens, at which the N-1
\* tokens of p are followed by s; every key is the bracketed space-joined form of
\* exactly N-1 tokens, every successor map is non-empty with counts >= 1, and a
\* sentence of fewer than N tokens adds no transition while its non-boundary tokens
\* are counted in Vocab and registered in Index.
C20_ChainCountsWindows ==
  ret.op = "Train" =>
    /\ DOMAIN Chain = { joinTokens(WindowPrefix(x)) : x \in WindowPositions }
    /\ \A p \in DOMAIN Chain :
         /\ Len(parsePrefix(p)) = Order - 1
         /\ p = <<91>> \o SpaceJoin(parsePrefix(p)) \o <<93>>
         /\ DOMAIN Chain[p] # {}
         /\ \A s \in DOMAIN Chain[p] :
              /\ Chain[p][s] >= 1
              /\ Chain[p][s] = Cardinality({ x \in WindowPositions :
                                               /\ WindowPrefix(x) = parsePrefix(p)
                                               /\ WindowSuccessor(x) = s })
    /\ \A n \in DOMAIN submitted :
         Len(submitted[n]) < Order =>
           \A t \in Range(submitted[n]) \ Boundary :
             /\ t \in DOMAIN Vocab /\ Vocab[t] = Occurrences(t)
             /\ t \in DOMAIN Index /\ joinSentence(submitted[n]) \in Range(Index[t])

\* a one-word sentence under order 4 next to a longer sentence submitted twice
C20_Witness ==
  /\ ret.op = "Train" /\ ~ret.err
  /\ \E n \in DOMAIN submitted :
       Len(submitted[n]) < Order /\ Range(submitted[n]) \ Boundary # {}
  /\ \E p \in DOMAIN Chain : \E s \in DOMAIN Chain[p] : Chain[p][s] >= 2

(***************************************************************************)
(* The corpus of the "not found" sentence under an order that its          *)
(* continuation cannot follow: the contexts built from a short output are  *)
(* no keys of the chain, so the loop stalls until it gives up.             *)
(***************************************************************************)
\* cmd train: --order
StallOrders == { 2, 12 }

InitStall ==
  /\ Order \in StallOrders
  /\ Chain = << >> /\ Sums = << >> /\ Index = << >> /\ Vocab = << >>
  /\ nTrains = 0 /\ submitted = << >>
  /\ built = FALSE /\ maxLength = 0 /\ keepPunctuation = FALSE /\ tokenEntropy = << >>
  /\ pc = "idle" /\ question = << >> /\ keywords = << >> /\ loop = NoLoop
  /\ ret = [op |-> "none"]
  /\ prev = NoPrev

StallQuestions ==
  EchoQuestions \cup { <<1063, 1090, 1086, 32, 111, 110, 32, 99, 97, 116, 63>> }   \* "Что on cat?"

StallNext ==
  \/ \E b \in EchoBatches : Train(b)
  \/ \E maxLen \in EchoLengths, usePunctuation \in PunctuationModes :
       NewAnswerGenerator(maxLen, usePunctuation, ThematicThreshold)
  \/ \E q \in StallQuestions : GenerateAnswer(q)
  \/ ContinuationStep
  \/ ContinuationEnd

SpecStall == InitStall /\ [][StallNext]_vars

\* the chain has no successor for the context of the coming iteration
NoSuccessor ==
  DOMAIN GetNextTokens(Chain, Sums,
                       contextOf(loop.tokens, loop.result, loop.currentPos, Order).prefix) = {}

\* C21: the stall counter starts at 0, grows by one with every iteration that finds
\* no successor and returns to 0 when a sampled token other than the end marker is
\* appended, so it is the number of stalls since the last sample; it never exceeds
\* 10 and no iteration runs once it is 10; sampling the end marker leaves the
\* output as it is and no iteration follows.
C21_StallCounter ==
  /\ [](pc = "loop" => loop.attempts \in 0..maxAttempts)
  /\ [][ /\ (pc # "loop" /\ pc' = "loop") => (loop'.attempts = 0 /\ ~loop'.broke)
         /\ (pc = "loop" /\ pc' = "loop") =>
              /\ loop.attempts < maxAttempts /\ ~loop.broke
              /\ IF NoSuccessor
                 THEN loop'.attempts = loop.attempts + 1 /\ ~loop'.broke
                 ELSE \/ /\ loop'.broke
                         /\ loop'.result = loop.result /\ loop'.attempts = loop.attempts
                      \/ /\ ~loop'.broke /\ loop'.attempts = 0
                         /\ Len(loop'.result) = Len(loop.result) + 1
                         /\ SubSeq(loop'.result, 1, Len(loop.result)) = loop.result
                         /\ loop'.result[Len(loop'.result)] # EndTok ]_vars

\* ten iterations in a row found no successor
C21_Witness == pc = "loop" /\ loop.attempts = maxAttempts /\ Len(loop.result) >= maxAttempts

====
